---- MODULE Spec2Model ----
(***************************************************************************)
(* Model of the sbom-scanner pipeline run: main() of src/main.go from the   *)
(* descriptor check (line 338) to the end of the task loop (line 434),      *)
(* together with the helpers it calls (copyFile, cleanDirectory,            *)
(* runMavenCommand, getEffectivePom, generateCycloneDX, runOSVScanner,      *)
(* isExitStatus1).  The -h and -c branches of main (lines 324-336) end the  *)
(* process before the pipeline and are not part of a pipeline run.          *)
(*                                                                          *)
(* A path is a triple <<directory, stem, extension>>; the filesystem maps   *)
(* every path of the model to what it holds ("none" when it is absent).     *)
(* The external tools (mvn, osv-scanner) are opaque: their result and       *)
(* whether they write their output file are chosen nondeterministically.    *)
(***************************************************************************)
EXTENDS Integers, Sequences, FiniteSets, TLC

VARIABLES
    pc,                 \* position in main()
    fs,                 \* the filesystem: path -> content
    dirExists,          \* the output directory exists
    pomFile,            \* flag -f: path of the descriptor
    unreadable,         \* the descriptor exists but cannot be opened
    exitOnVuln,         \* flag -e
    taskIdx,            \* index of the range loop over tasks (1-based)
    err,                \* error returned by the running task.action()
    completedProgress,  \* main's progress counter
    bar,                \* values given to the progress bar, in order
    log,                \* log entries [level, task, text], in order
    exitCode,           \* <<>> while the process runs, <<n>> once it exited with n
    started,            \* names of the tasks started, in order
    invoked,            \* external commands run, in order: [tool, res, wrote]
    setup,              \* errors of the staging calls, in order: [step, err]
    returned,           \* what each task.action() returned, in order: [task, err]
    fs0                 \* the filesystem before the run

vars == <<pc, fs, dirExists, pomFile, unreadable, exitOnVuln, taskIdx, err,
          completedProgress, bar, log, exitCode, started, invoked, setup,
          returned, fs0>>

(***************************************************************************)
(* Bounds and program constants                                            *)
(***************************************************************************)
\* at most this many entries are in the output directory before the run
MaxInitEntries == 2

\* bar.Set(10) before the first task
InitialBar == 10
\* progressbar.NewOptions(100, ...)
BarMax == 100

Nil == "nil"

(***************************************************************************)
(* Paths                                                                   *)
(***************************************************************************)
outputDir == "out"

Join(dir, name) == <<dir, name[1], name[2]>>
Dir(p) == p[1]
Ext(p) == p[3]
\* strings.TrimSuffix(p, suffix) + tail, on the file name of p
TrimSuffixPlus(p, suffix, tail) ==
    IF p[3] = suffix THEN <<p[1], p[2] \o tail[1], tail[2]>>
                     ELSE <<p[1], p[2] \o p[3] \o tail[1], tail[2]>>

dstPomPath == Join(outputDir, <<"pom", ".xml">>)
depsPath == Join(outputDir, <<"deps-tree", ".txt">>)
effectivePomPath == Join(outputDir, <<"effective-pom", ".xml">>)
sbomPath == Join(outputDir, <<"sbom", ".xml">>)

\* generateCycloneDX: targetDir and the file the plugin writes in it
targetDirOf(outPath) == Dir(outPath) \o "/target"
targetEntry(outPath) == Join(Dir(outPath), <<"target", "">>)
srcPathOf(outPath) == Join(targetDirOf(outPath), <<"bom", ".xml">>)

\* variant of ReportPath that appends the suffix without trimming the extension
ReportPathNoTrim(p) == <<p[1], p[2] \o p[3] \o "-vulnerabilities", ".json">>

\* runOSVScanner: outputPath
ReportPath(p) == TrimSuffixPlus(p, Ext(p), <<"-vulnerabilities", ".json">>)

\* a descriptor kept in the output directory under another name, a descriptor
\* outside it, and an unrelated file outside it
insidePom == Join(outputDir, <<"my", ".xml">>)
outsidePom == <<"data", "pom", ".xml">>
unrelated == <<"data", "keep", ".txt">>

\* entries of the output directory, in the order os.ReadDir lists them
\* (sorted by file name)
SortedEntries ==
    << depsPath, effectivePomPath, insidePom, dstPomPath,
       <<outputDir, "sbom-vulnerabilities", ".json">>, sbomPath,
       targetEntry(sbomPath) >>

OutEntries == { SortedEntries[i] : i \in 1..Len(SortedEntries) }
Paths == OutEntries \cup { srcPathOf(sbomPath), outsidePom, unrelated }

Exists(f, p) == p \in DOMAIN f /\ f[p] # "none"
\* the file p holds c afterwards
Write(f, p, c) == [q \in DOMAIN f \cup {p} |-> IF q = p THEN c ELSE f[q]]
\* p is the output directory's entry e or lies below it
Under(p, e) == p = e \/ (e[3] = "" /\ Dir(p) = e[1] \o "/" \o e[2])
InOutputDir(p) == \E e \in OutEntries : Under(p, e)
\* variant of RemoveAll given the entry's bare name instead of the joined path:
\* nothing in the output directory is removed
RemoveAllNoJoin(f, e) == f

\* os.RemoveAll(e)
RemoveAll(f, e) == [p \in DOMAIN f |-> IF Under(p, e) THEN "none" ELSE f[p]]

(***************************************************************************)
(* cleanDirectory (src/main.go 437-453): remove the entries in ReadDir      *)
(* order; failAt = 0 is a failing ReadDir, failAt = i the entry whose       *)
(* RemoveAll fails, failAt > Len(SortedEntries) no failure.                 *)
(***************************************************************************)
RECURSIVE cleanFrom(_, _, _)
cleanFrom(f, i, failAt) ==
    IF i > Len(SortedEntries) THEN [fs |-> f, err |-> Nil]
    ELSE IF ~Exists(f, SortedEntries[i]) THEN cleanFrom(f, i + 1, failAt)
    ELSE IF i = failAt THEN [fs |-> f, err |-> "remove failed"]
    ELSE cleanFrom(RemoveAll(f, SortedEntries[i]), i + 1, failAt)

\* variant of cleanDirectory that returns after the first entry
cleanDirectoryFirstOnly(f, failAt) ==
    LET present == { i \in 1..Len(SortedEntries) : Exists(f, SortedEntries[i]) } IN
    IF failAt = 0 THEN [fs |-> f, err |-> "readdir failed"]
    ELSE IF present = {} THEN [fs |-> f, err |-> Nil]
    ELSE LET i == CHOOSE j \in present : \A k \in present : j <= k IN
         IF i = failAt THEN [fs |-> f, err |-> "remove failed"]
         ELSE [fs |-> RemoveAll(f, SortedEntries[i]), err |-> Nil]

cleanDirectory(f, failAt) ==
    IF failAt = 0 THEN [fs |-> f, err |-> "readdir failed"]
    ELSE cleanFrom(f, 1, failAt)

NoFail == Len(SortedEntries) + 1

(***************************************************************************)
(* copyFile (src/main.go 46-69).  fault names the system call that fails.   *)
(***************************************************************************)
CopyFaults == {"none", "mkdir", "create", "copy"}

\* variant of copyFile that writes to a temporary name and renames at the end
copyFileViaTemp(f, src, dst, noread, fault) ==
    IF fault = "mkdir"
    THEN [fs |-> f, err |-> "failed to create destination directory"]
    ELSE IF ~Exists(f, src) \/ noread
    THEN [fs |-> f, err |-> "failed to open source file"]
    ELSE IF fault = "create"
    THEN [fs |-> f, err |-> "failed to create destination file"]
    ELSE IF fault = "copy"
    THEN [fs |-> Write(f, <<dst[1], dst[2], dst[3] \o ".tmp">>, "partial"),
          err |-> "failed to copy file"]
    ELSE [fs |-> Write(f, dst, f[src]), err |-> Nil]

copyFile(f, src, dst, noread, fault) ==
    IF fault = "mkdir"
    THEN [fs |-> f, err |-> "failed to create destination directory"]
    ELSE IF ~Exists(f, src) \/ noread
    THEN [fs |-> f, err |-> "failed to open source file"]
    ELSE IF fault = "create"
    THEN [fs |-> f, err |-> "failed to create destination file"]
    ELSE IF fault = "copy"
    THEN [fs |-> Write(f, dst, "partial"), err |-> "failed to copy file"]
    ELSE \* os.Create truncates dst before io.Copy reads src
         [fs |-> Write(f, dst, IF src = dst THEN "empty" ELSE f[src]),
          err |-> Nil]

(***************************************************************************)
(* The staging of main (src/main.go 343-360) on an existing output          *)
(* directory, as one function: cleanDirectory, then copyFile to pom.xml.    *)
(***************************************************************************)
ArtifactStager(f, pom, noread, failAt, fault) ==
    LET c == cleanDirectory(f, failAt) IN
    IF c.err # Nil THEN c
    ELSE copyFile(c.fs, pom, Join(outputDir, <<"pom", ".xml">>), noread, fault)

\* the paths present in the output directory
Listing(f) == { p \in DOMAIN f : InOutputDir(p) /\ Exists(f, p) }

(***************************************************************************)
(* External commands: exec.Cmd results                                     *)
(***************************************************************************)
\* nil, an *exec.ExitError with its exit code (-1: killed by a signal), or
\* an *exec.Error (the binary could not be started)
CmdResults ==
    { [kind |-> "nil", code |-> 0],
      [kind |-> "ExitError", code |-> 1],
      [kind |-> "ExitError", code |-> 2],
      [kind |-> "ExitError", code |-> -1],
      [kind |-> "Error", code |-> 0] }

\* a command that could not be started writes nothing
Outcomes == { o \in [res : CmdResults, wrote : BOOLEAN] :
                 o.res.kind = "Error" => ~o.wrote }

\* variants of isExitStatus1 with a slip: the exit code is never recognised, or
\* every *exec.ExitError is taken for exit status 1
isExitStatus1Never(e) == FALSE
isExitStatus1Any(e) == e.kind = "ExitError"

isExitStatus1(e) == e.kind = "ExitError" /\ e.code = 1

Invocation(tool, o) == [tool |-> tool, res |-> o.res, wrote |-> o.wrote]

(***************************************************************************)
(* The task list of main (src/main.go 363-392)                             *)
(***************************************************************************)
\* variant of the task list with the second and third task exchanged
tasksSwapped ==
    << [name |-> "Analyzing Dependencies", action |-> "runMavenCommand",
        progress |-> 20],
       [name |-> "Generating CycloneDX SBOM", action |-> "generateCycloneDX",
        progress |-> 30],
       [name |-> "Generating Effective POM", action |-> "getEffectivePom",
        progress |-> 20],
       [name |-> "Scanning for Vulnerabilities", action |-> "runOSVScanner",
        progress |-> 30] >>

\* variant of the task list in which every task weighs 30
tasksHeavy ==
    << [name |-> "Analyzing Dependencies", action |-> "runMavenCommand",
        progress |-> 30],
       [name |-> "Generating Effective POM", action |-> "getEffectivePom",
        progress |-> 30],
       [name |-> "Generating CycloneDX SBOM", action |-> "generateCycloneDX",
        progress |-> 30],
       [name |-> "Scanning for Vulnerabilities", action |-> "runOSVScanner",
        progress |-> 30] >>

tasks ==
    << [name |-> "Analyzing Dependencies", action |-> "runMavenCommand",
        progress |-> 20],
       [name |-> "Generating Effective POM", action |-> "getEffectivePom",
        progress |-> 20],
       [name |-> "Generating CycloneDX SBOM", action |-> "generateCycloneDX",
        progress |-> 30],
       [name |-> "Scanning for Vulnerabilities", action |-> "runOSVScanner",
        progress |-> 30] >>

Entry(level, task, text) == [level |-> level, task |-> task, text |-> text]

(***************************************************************************)
(* Initial states: the inputs of a run                                     *)
(***************************************************************************)
InitFs(present, pom, pomThere) ==
    [p \in Paths |->
        IF p = pom THEN (IF pomThere THEN "descriptor" ELSE "none")
        ELSE IF p = unrelated THEN "old"
        ELSE IF p \in present THEN (IF p[3] = "" THEN "dir" ELSE "old")
        ELSE "none"]

Init ==
    /\ pc = "stat"
    /\ pomFile \in {outsidePom, insidePom, dstPomPath}
    /\ exitOnVuln \in BOOLEAN
    /\ dirExists \in BOOLEAN
    /\ \E present \in SUBSET (OutEntries \cup {srcPathOf(sbomPath)}),
          pomThere \in BOOLEAN :
          /\ Cardinality(present \cup
                 (IF pomThere /\ InOutputDir(pomFile) THEN {pomFile} ELSE {}))
               <= MaxInitEntries
          /\ srcPathOf(sbomPath) \in present => targetEntry(sbomPath) \in present
          /\ ~dirExists => present = {} /\ (InOutputDir(pomFile) => ~pomThere)
          /\ fs = InitFs(present, pomFile, pomThere)
    /\ unreadable \in BOOLEAN
    /\ (unreadable => Exists(fs, pomFile))
    /\ taskIdx = 0
    /\ err = Nil
    /\ completedProgress = 0
    /\ bar = << >>
    /\ log = << >>
    /\ exitCode = << >>
    /\ started = << >>
    /\ invoked = << >>
    /\ setup = << >>
    /\ returned = << >>
    /\ fs0 = fs

(***************************************************************************)
(* logger.Fatalf: log the entry and os.Exit(1)                             *)
(***************************************************************************)
Fatalf(task, text) ==
    /\ log' = Append(log, Entry("fatal", task, text))
    /\ exitCode' = <<1>>
    /\ pc' = "exited"

(***************************************************************************)
(* Staging (src/main.go 338-361)                                           *)
(***************************************************************************)
\* variant of StatPom without the check: a missing descriptor is found only
\* by copyFile
StatPomUnchecked ==
    /\ pc = "stat"
    /\ pc' = "mkdir"
    /\ UNCHANGED <<log, exitCode, setup>>
    /\ UNCHANGED <<fs, dirExists, pomFile, unreadable, exitOnVuln, taskIdx, err,
                   completedProgress, bar, started, invoked, fs0, returned>>

\* if _, err := os.Stat(pomFile); os.IsNotExist(err)
StatPom ==
    /\ pc = "stat"
    /\ IF ~Exists(fs, pomFile)
       THEN /\ Fatalf("", "POM file not found")
            /\ setup' = Append(setup, [step |-> "stat", err |-> "not exist"])
       ELSE pc' = "mkdir" /\ UNCHANGED <<log, exitCode, setup>>
    /\ UNCHANGED <<fs, dirExists, pomFile, unreadable, exitOnVuln, taskIdx, err,
                   completedProgress, bar, started, invoked,
                   fs0, returned>>

\* os.MkdirAll(outputDir, 0755): nil when the directory is already there
MkdirOutput ==
    /\ pc = "mkdir"
    /\ \E ok \in BOOLEAN :
          /\ dirExists => ok
          /\ IF ok
             THEN /\ dirExists' = TRUE
                  /\ pc' = "clean"
                  /\ UNCHANGED <<log, exitCode, setup>>
             ELSE /\ Fatalf("", "Failed to create directory")
                  /\ setup' = Append(setup, [step |-> "mkdir", err |-> "mkdir failed"])
                  /\ UNCHANGED dirExists
    /\ UNCHANGED <<fs, pomFile, unreadable, exitOnVuln, taskIdx, err,
                   completedProgress, bar, started, invoked,
                   fs0, returned>>

\* variant of CleanOutput that leaves the directory as it is
CleanOutputSkipped ==
    /\ pc = "clean"
    /\ pc' = "copy"
    /\ UNCHANGED <<fs, log, exitCode, setup>>
    /\ UNCHANGED <<dirExists, pomFile, unreadable, exitOnVuln, taskIdx, err,
                   completedProgress, bar, started, invoked, fs0, returned>>

\* variant of CleanOutput that does not look at cleanDirectory's error
CleanOutputUnchecked ==
    /\ pc = "clean"
    /\ \E failAt \in 0..NoFail :
          LET r == cleanDirectory(fs, failAt) IN
          /\ fs' = r.fs
          /\ setup' = IF r.err # Nil
                      THEN Append(setup, [step |-> "clean", err |-> r.err])
                      ELSE setup
          /\ pc' = "copy"
          /\ UNCHANGED <<log, exitCode>>
    /\ UNCHANGED <<dirExists, pomFile, unreadable, exitOnVuln, taskIdx, err,
                   completedProgress, bar, started, invoked, fs0, returned>>

\* cleanDirectory(outputDir)
CleanOutput ==
    /\ pc = "clean"
    /\ \E failAt \in 0..NoFail :
          LET r == cleanDirectory(fs, failAt) IN
          /\ fs' = r.fs
          /\ IF r.err # Nil
             THEN /\ Fatalf("", "Failed to clean directory")
                  /\ setup' = Append(setup, [step |-> "clean", err |-> r.err])
             ELSE pc' = "copy" /\ UNCHANGED <<log, exitCode, setup>>
    /\ UNCHANGED <<dirExists, pomFile, unreadable, exitOnVuln, taskIdx, err,
                   completedProgress, bar, started, invoked,
                   fs0, returned>>

\* copyFile(pomFile, dstPomPath)
\* variant of CopyPom that does not look at copyFile's error
CopyPomUnchecked ==
    /\ pc = "copy"
    /\ \E fault \in CopyFaults :
          LET r == copyFile(fs, pomFile, dstPomPath, unreadable, fault) IN
          /\ fs' = r.fs
          /\ setup' = IF r.err # Nil
                      THEN Append(setup, [step |-> "copy", err |-> r.err])
                      ELSE setup
          /\ log' = Append(log, Entry("info", "", "Copying POM File"))
          /\ pc' = "begin"
          /\ UNCHANGED exitCode
    /\ UNCHANGED <<dirExists, pomFile, unreadable, exitOnVuln, taskIdx, err,
                   completedProgress, bar, started, invoked, fs0, returned>>

CopyPom ==
    /\ pc = "copy"
    /\ \E fault \in CopyFaults :
          LET r == copyFile(fs, pomFile, dstPomPath, unreadable, fault) IN
          /\ fs' = r.fs
          /\ IF r.err # Nil
             THEN /\ Fatalf("", "Failed to copy POM file")
                  /\ setup' = Append(setup, [step |-> "copy", err |-> r.err])
             ELSE /\ log' = Append(log, Entry("info", "", "Copying POM File"))
                  /\ pc' = "begin"
                  /\ UNCHANGED <<exitCode, setup>>
    /\ UNCHANGED <<dirExists, pomFile, unreadable, exitOnVuln, taskIdx, err,
                   completedProgress, bar, started, invoked,
                   fs0, returned>>

(***************************************************************************)
(* The task loop (src/main.go 394-434)                                     *)
(***************************************************************************)
\* progress bar creation, completedProgress := 0, bar.Set(10)
BeginLoop ==
    /\ pc = "begin"
    /\ completedProgress' = 0
    /\ bar' = Append(bar, InitialBar)
    /\ taskIdx' = 1
    /\ pc' = "loop"
    /\ UNCHANGED <<fs, dirExists, pomFile, unreadable, exitOnVuln, err, log,
                   exitCode, started, invoked,
                   fs0, setup, returned>>

\* for _, task := range tasks { logger.Info(task.name) ...
StartTask ==
    /\ pc = "loop"
    /\ taskIdx <= Len(tasks)
    /\ log' = Append(log, Entry("info", tasks[taskIdx].name, "start"))
    /\ started' = Append(started, tasks[taskIdx].name)
    /\ pc' = "action"
    /\ UNCHANGED <<fs, dirExists, pomFile, unreadable, exitOnVuln, taskIdx, err,
                   completedProgress, bar, exitCode, invoked,
                   fs0, setup, returned>>

(***************************************************************************)
(* runMavenCommand (71-98) and getEffectivePom (100-126): filepath.Abs,     *)
(* then the command; the error is the command's error alone.                *)
(***************************************************************************)
AbsFaults == {"none", "abs"}

\* variant of mavenResult that drops the command's error
mavenResultIgnoreErr(f, out, content, o, failText) ==
    [fs  |-> IF o.wrote THEN Write(f, out, content) ELSE f,
     err |-> Nil]

\* variant of mavenResult that takes exit status 1 for a finding, as the scan does
mavenResultExit1Advisory(f, out, content, o, failText) ==
    [fs  |-> IF o.wrote THEN Write(f, out, content) ELSE f,
     err |-> IF o.res.kind # "nil" /\ ~isExitStatus1(o.res) THEN failText ELSE Nil]

mavenResult(f, out, content, o, failText) ==
    [fs  |-> IF o.wrote THEN Write(f, out, content) ELSE f,
     err |-> IF o.res.kind # "nil" THEN failText ELSE Nil]

runMavenCommand(f, pomPath, outputPath, o) ==
    mavenResult(f, outputPath, "tree", o, "maven command failed")

getEffectivePom(f, pomPath, outputPath, o) ==
    mavenResult(f, outputPath, "effective", o, "effective-pom generation failed")

RunMavenCommand ==
    /\ pc = "action"
    /\ tasks[taskIdx].action = "runMavenCommand"
    /\ \E fault \in AbsFaults, o \in Outcomes :
          IF fault = "abs"
          THEN /\ err' = "failed to get absolute path"
               /\ UNCHANGED <<fs, invoked, log>>
          ELSE LET r == runMavenCommand(fs, dstPomPath, depsPath, o) IN
               /\ invoked' = Append(invoked, Invocation("mvn dependency:tree", o))
               /\ fs' = r.fs
               /\ err' = r.err
               /\ log' = IF r.err = Nil
                         THEN Append(log, Entry("info", "", "Dependency tree written"))
                         ELSE log
    /\ pc' = "ret"
    /\ UNCHANGED <<dirExists, pomFile, unreadable, exitOnVuln, taskIdx,
                   completedProgress, bar, exitCode, started,
                   fs0, setup, returned>>

GetEffectivePom ==
    /\ pc = "action"
    /\ tasks[taskIdx].action = "getEffectivePom"
    /\ \E fault \in AbsFaults, o \in Outcomes :
          IF fault = "abs"
          THEN /\ err' = "failed to get absolute path"
               /\ UNCHANGED <<fs, invoked, log>>
          ELSE LET r == getEffectivePom(fs, dstPomPath, effectivePomPath, o) IN
               /\ invoked' = Append(invoked, Invocation("mvn help:effective-pom", o))
               /\ fs' = r.fs
               /\ err' = r.err
               /\ log' = IF r.err = Nil
                         THEN Append(log, Entry("info", "", "Effective POM written"))
                         ELSE log
    /\ pc' = "ret"
    /\ UNCHANGED <<dirExists, pomFile, unreadable, exitOnVuln, taskIdx,
                   completedProgress, bar, exitCode, started,
                   fs0, setup, returned>>

(***************************************************************************)
(* generateCycloneDX (128-173)                                             *)
(***************************************************************************)
\* filepath.Abs and os.MkdirAll(targetDir, 0755)
SbomFaults == {"none", "abs", "mkdir"}

SbomPrepare ==
    /\ pc = "action"
    /\ tasks[taskIdx].action = "generateCycloneDX"
    /\ \E fault \in SbomFaults :
          IF fault = "abs"
          THEN err' = "failed to get absolute path" /\ pc' = "ret" /\ UNCHANGED fs
          ELSE IF fault = "mkdir"
          THEN err' = "failed to create target directory" /\ pc' = "ret"
               /\ UNCHANGED fs
          ELSE /\ fs' = Write(fs, targetEntry(sbomPath), "dir")
               /\ pc' = "sbom_cmd"
               /\ UNCHANGED err
    /\ UNCHANGED <<dirExists, pomFile, unreadable, exitOnVuln, taskIdx,
                   completedProgress, bar, log, exitCode, started, invoked,
                   fs0, setup, returned>>

\* mvn ...:makeAggregateBom -DoutputFile=bom.xml, in outputDir
SbomCommand ==
    /\ pc = "sbom_cmd"
    /\ \E o \in Outcomes :
          /\ invoked' = Append(invoked, Invocation("mvn makeAggregateBom", o))
          /\ fs' = IF o.wrote THEN Write(fs, srcPathOf(sbomPath), "bom") ELSE fs
          /\ IF o.res.kind # "nil"
             THEN err' = "cyclonedx generation failed" /\ pc' = "ret"
             ELSE pc' = "sbom_move" /\ UNCHANGED err
    /\ UNCHANGED <<dirExists, pomFile, unreadable, exitOnVuln, taskIdx,
                   completedProgress, bar, log, exitCode, started,
                   fs0, setup, returned>>

\* variant of Rename whose error is dropped: an absent source goes unnoticed
RenameUnchecked(f, src, dst, ioFail) ==
    IF ~Exists(f, src) \/ ioFail
    THEN [fs |-> f, err |-> Nil]
    ELSE [fs |-> Write(Write(f, dst, f[src]), src, "none"), err |-> Nil]

\* os.Rename(srcPath, absOutputPath): fails when srcPath is absent (or for
\* another reason of the system: ioFail)
Rename(f, src, dst, ioFail) ==
    IF ~Exists(f, src) \/ ioFail
    THEN [fs |-> f, err |-> "failed to move SBOM to output dir"]
    ELSE [fs |-> Write(Write(f, dst, f[src]), src, "none"), err |-> Nil]

\* variant of SbomMove that returns the error of os.RemoveAll(targetDir)
SbomMoveStrict ==
    /\ pc = "sbom_move"
    /\ \E ioFail \in BOOLEAN, rmFail \in BOOLEAN :
          LET r == Rename(fs, srcPathOf(sbomPath), sbomPath, ioFail) IN
          IF r.err # Nil
          THEN err' = r.err /\ UNCHANGED <<fs, log>>
          ELSE IF rmFail
          THEN /\ err' = "failed to clean up target directory"
               /\ fs' = r.fs
               /\ log' = Append(log, Entry("warn", "",
                                "Failed to clean up target directory"))
          ELSE /\ err' = Nil
               /\ fs' = RemoveAll(r.fs, targetEntry(sbomPath))
               /\ log' = Append(log, Entry("info", "", "CycloneDX BOM written"))
    /\ pc' = "ret"
    /\ UNCHANGED <<dirExists, pomFile, unreadable, exitOnVuln, taskIdx,
                   completedProgress, bar, exitCode, started, invoked,
                   fs0, setup, returned>>

\* the move, then os.RemoveAll(targetDir), whose failure is only logged
SbomMove ==
    /\ pc = "sbom_move"
    /\ \E ioFail \in BOOLEAN, rmFail \in BOOLEAN :
          LET r == Rename(fs, srcPathOf(sbomPath), sbomPath, ioFail) IN
          IF r.err # Nil
          THEN err' = r.err /\ UNCHANGED <<fs, log>>
          ELSE /\ err' = Nil
               /\ fs' = IF rmFail THEN r.fs
                        ELSE RemoveAll(r.fs, targetEntry(sbomPath))
               /\ log' = (IF rmFail
                          THEN Append(log, Entry("warn", "",
                                   "Failed to clean up target directory"))
                          ELSE log)
                         \o << Entry("info", "", "CycloneDX BOM written") >>
    /\ pc' = "ret"
    /\ UNCHANGED <<dirExists, pomFile, unreadable, exitOnVuln, taskIdx,
                   completedProgress, bar, exitCode, started, invoked,
                   fs0, setup, returned>>

(***************************************************************************)
(* runOSVScanner (175-224)                                                 *)
(***************************************************************************)
\* filepath.Abs, os.Stat(absSbomPath), os.Create(absOutputPath)
ScanFaults == {"none", "abs", "create"}

\* variant of scanPrepare without the os.Stat check of the SBOM file
scanPrepareNoStat(f, path, fault) ==
    IF fault = "abs" THEN [fs |-> f, err |-> "failed to get absolute path"]
    ELSE IF fault = "create"
    THEN [fs |-> f, err |-> "failed to create output file"]
    ELSE [fs |-> Write(f, ReportPath(path), "empty"), err |-> Nil]

\* variant of scanPrepare that leaves the creation of the report to the scanner
scanPrepareNoCreate(f, path, fault) ==
    IF fault = "abs" THEN [fs |-> f, err |-> "failed to get absolute path"]
    ELSE IF ~Exists(f, path) THEN [fs |-> f, err |-> "SBOM file not found"]
    ELSE IF fault = "create"
    THEN [fs |-> f, err |-> "failed to create output file"]
    ELSE [fs |-> f, err |-> Nil]

scanPrepare(f, path, fault) ==
    IF fault = "abs" THEN [fs |-> f, err |-> "failed to get absolute path"]
    ELSE IF ~Exists(f, path) THEN [fs |-> f, err |-> "SBOM file not found"]
    ELSE IF fault = "create"
    THEN [fs |-> f, err |-> "failed to create output file"]
    ELSE [fs |-> Write(f, ReportPath(path), "empty"), err |-> Nil]

ScanPrepare ==
    /\ pc = "action"
    /\ tasks[taskIdx].action = "runOSVScanner"
    /\ \E fault \in ScanFaults :
          LET r == scanPrepare(fs, sbomPath, fault) IN
          /\ fs' = r.fs
          /\ IF r.err # Nil
             THEN err' = r.err /\ pc' = "ret"
             ELSE pc' = "scan_cmd" /\ UNCHANGED err
    /\ UNCHANGED <<dirExists, pomFile, unreadable, exitOnVuln, taskIdx,
                   completedProgress, bar, log, exitCode, started, invoked,
                   fs0, setup, returned>>

\* the interpretation of cmd.Run()'s error (206-223)
scanError(e, fatalOnVuln) ==
    IF isExitStatus1(e)
    THEN (IF fatalOnVuln THEN "vulnerabilities found" ELSE Nil)
    ELSE IF e.kind # "nil" THEN "osv-scanner error"
    ELSE Nil

\* osv-scanner --sbom ... --format json, standard output to the report file
ScanCommand ==
    /\ pc = "scan_cmd"
    /\ \E o \in Outcomes :
          /\ invoked' = Append(invoked, Invocation("osv-scanner", o))
          /\ fs' = IF o.wrote THEN Write(fs, ReportPath(sbomPath), "report")
                   ELSE fs
          /\ err' = scanError(o.res, exitOnVuln)
          /\ log' = IF isExitStatus1(o.res)
                    THEN (IF exitOnVuln THEN log
                          ELSE Append(log, Entry("warn", "", "Vulnerabilities found!")))
                    ELSE IF o.res.kind # "nil" THEN log
                    ELSE Append(log, Entry("info", "", "Vulnerability report written"))
    /\ pc' = "ret"
    /\ UNCHANGED <<dirExists, pomFile, unreadable, exitOnVuln, taskIdx,
                   completedProgress, bar, exitCode, started,
                   fs0, setup, returned>>

(***************************************************************************)
(* After task.action() returned (421-427), and the end of main (431-434)   *)
(***************************************************************************)
\* variant of AfterAction that goes on to the next task after an error
AfterActionContinue ==
    /\ pc = "ret"
    /\ returned' = Append(returned, [task |-> tasks[taskIdx].name, err |-> err])
    /\ completedProgress' = completedProgress + tasks[taskIdx].progress
    /\ bar' = Append(bar, completedProgress')
    /\ taskIdx' = taskIdx + 1
    /\ pc' = "loop"
    /\ UNCHANGED <<log, exitCode>>
    /\ UNCHANGED <<fs, dirExists, pomFile, unreadable, exitOnVuln, err,
                   started, invoked, fs0, setup>>

AfterAction ==
    /\ pc = "ret"
    /\ returned' = Append(returned, [task |-> tasks[taskIdx].name, err |-> err])
    /\ IF err # Nil
       THEN /\ Fatalf(tasks[taskIdx].name, err)
            /\ UNCHANGED <<completedProgress, bar, taskIdx>>
       ELSE /\ completedProgress' = completedProgress + tasks[taskIdx].progress
            /\ bar' = Append(bar, completedProgress')
            /\ taskIdx' = taskIdx + 1
            /\ pc' = "loop"
            /\ UNCHANGED <<log, exitCode>>
    /\ UNCHANGED <<fs, dirExists, pomFile, unreadable, exitOnVuln, err,
                   started, invoked,
                   fs0, setup>>

Finish ==
    /\ pc = "loop"
    /\ taskIdx > Len(tasks)
    /\ log' = Append(log, Entry("info", "", "Process completed successfully!"))
    /\ exitCode' = <<0>>
    /\ pc' = "exited"
    /\ UNCHANGED <<fs, dirExists, pomFile, unreadable, exitOnVuln, taskIdx, err,
                   completedProgress, bar, started, invoked,
                   fs0, setup, returned>>

Next ==
    \/ StatPom
    \/ MkdirOutput
    \/ CleanOutput
    \/ CopyPom
    \/ BeginLoop
    \/ StartTask
    \/ RunMavenCommand
    \/ GetEffectivePom
    \/ SbomPrepare
    \/ SbomCommand
    \/ SbomMove
    \/ ScanPrepare
    \/ ScanCommand
    \/ AfterAction
    \/ Finish

Spec == Init /\ [][Next]_vars

(***************************************************************************)
(* runOSVScanner as the fourth task calls it, on any contents of the        *)
(* output directory: between the return of generateCycloneDX and the        *)
(* os.Stat of runOSVScanner the directory is open to every other process.   *)
(***************************************************************************)
ScanInputs ==
    { f \in [Paths -> {"none", "old", "descriptor", "dir"}] :
         /\ f[dstPomPath] = "descriptor" /\ f[outsidePom] = "descriptor"
         /\ f[unrelated] = "old"
         /\ f[insidePom] = "none" /\ f[srcPathOf(sbomPath)] = "none"
         /\ f[targetEntry(sbomPath)] \in {"none", "dir"}
         /\ \A p \in {depsPath, effectivePomPath, sbomPath, ReportPath(sbomPath)} :
               f[p] \in {"none", "old"} }

InitScan ==
    /\ pc = "action"
    /\ taskIdx = 4
    /\ pomFile = outsidePom
    /\ unreadable = FALSE
    /\ dirExists = TRUE
    /\ exitOnVuln \in BOOLEAN
    /\ fs \in ScanInputs
    /\ fs0 = fs
    /\ err = Nil
    /\ completedProgress = tasks[1].progress + tasks[2].progress + tasks[3].progress
    /\ bar = << InitialBar, tasks[1].progress,
                tasks[1].progress + tasks[2].progress,
                tasks[1].progress + tasks[2].progress + tasks[3].progress >>
    /\ log = << >>
    /\ exitCode = << >>
    /\ started = [i \in 1..4 |-> tasks[i].name]
    /\ invoked = [i \in 1..3 |->
                    [tool |-> <<"mvn dependency:tree", "mvn help:effective-pom",
                                "mvn makeAggregateBom">>[i],
                     res |-> [kind |-> "nil", code |-> 0], wrote |-> TRUE]]
    /\ setup = << >>
    /\ returned = [i \in 1..3 |-> [task |-> tasks[i].name, err |-> Nil]]

NextScan ==
    \/ ScanPrepare
    \/ ScanCommand
    \/ AfterAction
    \/ Finish

SpecScan == InitScan /\ [][NextScan]_vars

(***************************************************************************)
(* Vocabulary of the properties                                            *)
(***************************************************************************)
StageOrder ==
    << "Analyzing Dependencies", "Generating Effective POM",
       "Generating CycloneDX SBOM", "Scanning for Vulnerabilities" >>

ToolOrder ==
    << "mvn dependency:tree", "mvn help:effective-pom", "mvn makeAggregateBom",
       "osv-scanner" >>

IsPrefix(s, t) == Len(s) <= Len(t) /\ \A i \in 1..Len(s) : s[i] = t[i]
Last(s) == s[Len(s)]
Tools == [i \in 1..Len(invoked) |-> invoked[i].tool]
AllReturnedNil == \A i \in 1..Len(returned) : returned[i].err = Nil
SomeReturnedErr == \E i \in 1..Len(returned) : returned[i].err # Nil
Exited == pc = "exited"
Completed == exitCode = <<0>>
Failed == exitCode = <<1>>
ScanStage == StageOrder[4]
\* the scanner has run and this is its result
ScannerRan == Len(invoked) = 4 /\ invoked[4].tool = "osv-scanner"
ScanFatalEntry(text) == Entry("fatal", ScanStage, text)

(***************************************************************************)
(* C1: the tasks started are always a prefix of [dependency tree,           *)
(* effective POM, SBOM generation, vulnerability scan], and so are the      *)
(* external commands run; task k+1 is started only after task k returned    *)
(* nil; and when all four tasks returned nil each of the four commands was  *)
(* run exactly once, in that order.                                         *)
(***************************************************************************)
C1_StageOrder ==
    /\ IsPrefix(started, StageOrder)
    /\ IsPrefix(Tools, ToolOrder)
    /\ \A k \in 2..Len(started) :
          /\ Len(returned) >= k - 1
          /\ returned[k - 1].task = StageOrder[k - 1]
          /\ returned[k - 1].err = Nil
    /\ (Len(returned) = 4 /\ AllReturnedNil) =>
          (started = StageOrder /\ Tools = ToolOrder)

C1_Witness ==
    /\ Completed
    /\ Len(returned) = 4 /\ AllReturnedNil
    /\ Tools = ToolOrder

(***************************************************************************)
(* C2: fail-fast.  Once task k has returned an error, no later task is      *)
(* started, task k is not started or run again, the run has ended with      *)
(* exit code 1 and a fatal entry naming task k, and it is not Completed.    *)
(***************************************************************************)
C2_FailFast ==
    \A k \in 1..Len(returned) :
        returned[k].err # Nil =>
            /\ Len(returned) = k
            /\ Len(started) = k
            /\ started[k] = returned[k].task
            /\ Len(invoked) <= k
            /\ Exited /\ Failed /\ ~Completed
            /\ Last(log) = Entry("fatal", StageOrder[k], returned[k].err)

C2_Witness ==
    /\ Len(returned) = 2
    /\ returned[2].err # Nil
    /\ Failed

(***************************************************************************)
(* C3: when the scanner exits with code 1, with exitOnVuln unset the scan   *)
(* task returns nil, a warning is logged and the run ends with exit code 0; *)
(* with exitOnVuln set the scan task returns an error and the run ends      *)
(* with exit code 1 and a fatal entry naming the scan task.                 *)
(***************************************************************************)
ScannerExit1 == ScannerRan /\ invoked[4].res = [kind |-> "ExitError", code |-> 1]
Warned == \E i \in 1..Len(log) :
             log[i] = Entry("warn", "", "Vulnerabilities found!")

C3_ScannerExit1 ==
    ScannerExit1 =>
        IF exitOnVuln
        THEN /\ err = "vulnerabilities found"
             /\ ~Warned
             /\ Exited => /\ Failed
                          /\ Last(log) = ScanFatalEntry("vulnerabilities found")
        ELSE /\ err = Nil
             /\ Warned
             /\ Exited => /\ Completed
                          /\ Len(returned) = 4 /\ AllReturnedNil

C3_Witness ==
    /\ ScannerExit1
    /\ ~exitOnVuln
    /\ Exited /\ Completed

(***************************************************************************)
(* C4: when the scanner ends with a non-zero code other than 1, or cannot   *)
(* be started, the scan task returns an error and the run ends with exit    *)
(* code 1, whatever exitOnVuln is.                                          *)
(***************************************************************************)
ScannerBroke ==
    /\ ScannerRan
    /\ invoked[4].res.kind # "nil"
    /\ ~(invoked[4].res.kind = "ExitError" /\ invoked[4].res.code = 1)

C4_ScannerOtherFailure ==
    ScannerBroke =>
        /\ err = "osv-scanner error"
        /\ Exited => /\ Failed
                     /\ Last(log) = ScanFatalEntry("osv-scanner error")

C4_Witness ==
    /\ ScannerBroke
    /\ invoked[4].res.code = 2
    /\ ~exitOnVuln
    /\ Exited /\ Failed

(***************************************************************************)
(* C5: the process ends with exit code 0 exactly when staging succeeded     *)
(* and all four tasks returned nil; otherwise it ends with exit code 1 and  *)
(* its last log entry is the fatal entry of the failing staging call or     *)
(* names the failing task.                                                  *)
(***************************************************************************)
SetupMessages ==
    [stat |-> "POM file not found", mkdir |-> "Failed to create directory",
     clean |-> "Failed to clean directory", copy |-> "Failed to copy POM file"]

C5_ExitCode ==
    Exited =>
        /\ Completed <=> (setup = << >> /\ Len(returned) = 4 /\ AllReturnedNil)
        /\ ~Completed =>
              /\ Failed
              /\ IF setup # << >>
                 THEN Last(log) = Entry("fatal", "", SetupMessages[Last(setup).step])
                 ELSE /\ returned # << >>
                      /\ Last(log) = Entry("fatal", StageOrder[Len(returned)],
                                           Last(returned).err)

C5_Witness ==
    /\ Exited /\ Completed
    /\ ScannerExit1

(***************************************************************************)
(* C6: when the SBOM command exits 0 without having written                 *)
(* target/bom.xml, generateCycloneDX returns the move error (not nil, and   *)
(* not the command-failure error), the run ends with exit code 1 naming     *)
(* the SBOM task, and the scan task and the scanner are never started.      *)
(***************************************************************************)
SbomTask == StageOrder[3]
SbomLied ==
    /\ Len(invoked) >= 3
    /\ invoked[3].tool = "mvn makeAggregateBom"
    /\ invoked[3].res.kind = "nil"
    /\ ~invoked[3].wrote

C6_MissingArtifact ==
    SbomLied =>
        /\ Len(started) = 3 /\ Len(invoked) = 3
        /\ pc \in {"sbom_move", "ret", "exited"}
        /\ pc = "ret" => /\ err = "failed to move SBOM to output dir"
                         /\ err # "cyclonedx generation failed"
        /\ Exited => /\ Failed
                     /\ Last(log) = Entry("fatal", SbomTask,
                                          "failed to move SBOM to output dir")
        /\ ~Exists(fs, sbomPath)

C6_Witness ==
    /\ SbomLied
    /\ Exited /\ Failed

(***************************************************************************)
(* C7 as stated: whenever the effective-POM task has started deps-tree.txt  *)
(* exists, whenever the SBOM task has started effective-pom.xml exists,     *)
(* and whenever the scanner is launched sbom.xml exists.                    *)
(***************************************************************************)
ScannerLaunched == pc = "scan_cmd" \/ ScannerRan

C7_Original ==
    /\ Len(started) >= 2 => Exists(fs, <<"out", "deps-tree", ".txt">>)
    /\ Len(started) >= 3 => Exists(fs, <<"out", "effective-pom", ".xml">>)
    /\ ScannerLaunched => Exists(fs, <<"out", "sbom", ".xml">>)

(***************************************************************************)
(* C7 as amended: whenever the scan task has started or the scanner is      *)
(* launched, sbom.xml exists; whenever the effective-POM task (the SBOM     *)
(* task) has started, the dependency-tree command (the effective-POM        *)
(* command) has exited 0, whether or not it wrote its output file.          *)
(***************************************************************************)
C7_Amended ==
    /\ (Len(started) >= 4 \/ ScannerLaunched) =>
          Exists(fs, <<"out", "sbom", ".xml">>)
    /\ Len(started) >= 2 =>
          /\ Len(invoked) >= 1
          /\ invoked[1].tool = "mvn dependency:tree"
          /\ invoked[1].res.kind = "nil"
    /\ Len(started) >= 3 =>
          /\ Len(invoked) >= 2
          /\ invoked[2].tool = "mvn help:effective-pom"
          /\ invoked[2].res.kind = "nil"

C7_Witness ==
    /\ pc = "scan_cmd"
    /\ Exists(fs, sbomPath)
    /\ ~Exists(fs, depsPath)
    /\ ~Exists(fs, effectivePomPath)

(***************************************************************************)
(* C8: the values given to the progress bar never decrease and lie in       *)
(* 0..100; 100 is given only when all four tasks have returned nil; the     *)
(* task weights are 20, 20, 30, 30 and sum to 100; and completedProgress    *)
(* is the sum of the weights of the tasks completed so far.                 *)
(***************************************************************************)
Weights == <<20, 20, 30, 30>>

RECURSIVE SumFirst(_, _)
SumFirst(w, k) == IF k = 0 THEN 0 ELSE SumFirst(w, k - 1) + w[k]

CompletedTasks == Cardinality({ i \in 1..Len(returned) : returned[i].err = Nil })

C8_Progress ==
    /\ \A i \in 1..Len(bar) : bar[i] >= 0 /\ bar[i] <= 100
    /\ \A i \in 1..Len(bar) : \A j \in i..Len(bar) : bar[i] <= bar[j]
    /\ \A i \in 1..Len(bar) :
          bar[i] = 100 => (Len(returned) = 4 /\ AllReturnedNil)
    /\ Len(tasks) = 4
    /\ \A i \in 1..4 : tasks[i].progress = Weights[i]
    /\ SumFirst([i \in 1..4 |-> tasks[i].progress], 4) = 100
    /\ completedProgress = SumFirst(Weights, CompletedTasks)

C8_Witness ==
    /\ bar = <<10, 20, 40, 70, 100>>
    /\ completedProgress = 100

(***************************************************************************)
(* C9: whenever a staging call has failed (descriptor missing or            *)
(* unreadable, output directory not creatable or not cleanable, copy        *)
(* failing), the run has ended with exit code 1 and no task was started     *)
(* and no external command was run.                                         *)
(***************************************************************************)
C9_SetupFailure ==
    /\ setup # << >> =>
          /\ Exited /\ Failed
          /\ started = << >>
          /\ invoked = << >>
          /\ bar = << >>
    /\ (pc \in {"stat", "mkdir", "clean", "copy"}) =>
          (started = << >> /\ invoked = << >>)

C9_Witness ==
    /\ setup # << >>
    /\ Last(setup) = [step |-> "copy", err |-> "failed to open source file"]
    /\ unreadable
    /\ Exited /\ Failed

(***************************************************************************)
(* C10: when the descriptor lies outside the output directory and all four  *)
(* commands exited 0 and wrote their output files, the run ends with exit   *)
(* code 0 and the output directory holds pom.xml, deps-tree.txt,            *)
(* effective-pom.xml, sbom.xml and sbom-vulnerabilities.json, whatever it   *)
(* held before the run.                                                     *)
(***************************************************************************)
AllToolsSucceeded ==
    /\ Len(invoked) = 4
    /\ \A i \in 1..4 : invoked[i].res.kind = "nil" /\ invoked[i].wrote

C10_EndToEnd ==
    (AllToolsSucceeded /\ ~InOutputDir(pomFile)) =>
        /\ Exited => Completed
        /\ ~Failed
        /\ fs[<<"out", "pom", ".xml">>] = fs0[pomFile]
        /\ Exists(fs, <<"out", "pom", ".xml">>)
        /\ Exists(fs, <<"out", "deps-tree", ".txt">>)
        /\ Exists(fs, <<"out", "effective-pom", ".xml">>)
        /\ Exists(fs, <<"out", "sbom", ".xml">>)
        /\ Exists(fs, <<"out", "sbom-vulnerabilities", ".json">>)

C10_Witness ==
    /\ AllToolsSucceeded
    /\ pomFile = <<"data", "pom", ".xml">>
    /\ Exited /\ Completed
    /\ Exists(fs0, <<"out", "sbom", ".xml">>)
    /\ Exists(fs0, <<"out", "target", "">>)

(***************************************************************************)
(* C11: staging is idempotent.  With the descriptor outside the output      *)
(* directory, staging the directory the run found and staging again what    *)
(* the first staging left give the same listing; the staging of the run is  *)
(* that first staging, and staging again whatever the run has put into the  *)
(* directory since gives that listing once more.                            *)
(***************************************************************************)
StagingDone == setup = << >> /\ pc \notin {"stat", "mkdir", "clean", "copy"}

C11_StagingIdempotent ==
    ~InOutputDir(pomFile) =>
        /\ pc = "stat" =>
           \A fa1 \in 0..NoFail : \A fa2 \in 0..NoFail :
              LET first == ArtifactStager(fs0, pomFile, unreadable, fa1, "none")
                  second == ArtifactStager(first.fs, pomFile, unreadable, fa2, "none")
              IN (first.err = Nil /\ second.err = Nil) =>
                     Listing(second.fs) = Listing(first.fs)
        /\ pc = "begin" =>
              fs = ArtifactStager(fs0, pomFile, unreadable, NoFail, "none").fs
        /\ StagingDone =>
              \A fa \in 0..NoFail :
                 LET again == ArtifactStager(fs, pomFile, unreadable, fa, "none") IN
                 again.err = Nil =>
                     Listing(again.fs) =
                        Listing(ArtifactStager(fs0, pomFile, unreadable, NoFail,
                                               "none").fs)

C11_Witness ==
    /\ ~InOutputDir(pomFile)
    /\ Exited /\ Completed
    /\ Cardinality(Listing(fs0)) >= 2
    /\ Cardinality(Listing(fs)) >= 5
    /\ Listing(ArtifactStager(fs, pomFile, unreadable, NoFail, "none").fs)
          = { <<"out", "pom", ".xml">> }

(***************************************************************************)
(* C12: for the dependency-tree, effective-POM and SBOM commands every      *)
(* non-nil result (any exit code, 1 included, or a failure to start) makes  *)
(* the task return an error and the run end with exit code 1, whatever      *)
(* exitOnVuln is; a task returns nil after a failed command only in the     *)
(* scan task, for exit code 1 with exitOnVuln unset.                        *)
(***************************************************************************)
C12_OnlyScanAdvisory ==
    /\ \A k \in 1..3 :
          (Len(invoked) >= k /\ invoked[k].res.kind # "nil") =>
              /\ Len(invoked) = k /\ Len(started) = k
              /\ pc \in {"ret", "exited"}
              /\ err # Nil
              /\ Exited => (Failed /\ Len(returned) = k /\ returned[k].err # Nil)
    /\ \A k \in 1..Len(returned) :
          (returned[k].err = Nil /\ Len(invoked) >= k
             /\ invoked[k].res.kind # "nil") =>
              /\ k = 4
              /\ invoked[k].tool = "osv-scanner"
              /\ invoked[k].res = [kind |-> "ExitError", code |-> 1]
              /\ ~exitOnVuln

C12_Witness ==
    /\ Len(invoked) = 1
    /\ invoked[1].res = [kind |-> "ExitError", code |-> 1]
    /\ ~exitOnVuln
    /\ Exited /\ Failed

(***************************************************************************)
(* C13 (under SpecScan): when sbom.xml does not exist as the scan task      *)
(* starts, runOSVScanner returns an error that is not a scanner error       *)
(* ("SBOM file not found", or the failure of filepath.Abs before it), the   *)
(* scanner is never run, no report file is created, and the run ends with   *)
(* exit code 1 naming the scan task.                                        *)
(***************************************************************************)
SbomMissing == ~Exists(fs0, <<"out", "sbom", ".xml">>)

C13_SbomNotFound ==
    SbomMissing =>
        /\ pc \in {"action", "ret", "exited"}
        /\ pc # "action" =>
              /\ err \in {"SBOM file not found", "failed to get absolute path"}
              /\ err \notin {"osv-scanner error", "vulnerabilities found", Nil}
        /\ \A i \in 1..Len(invoked) : invoked[i].tool # "osv-scanner"
        /\ fs = fs0
        /\ Exited => (Failed /\ Last(log) = ScanFatalEntry(err))

C13_Witness ==
    /\ SbomMissing
    /\ err = "SBOM file not found"
    /\ ~Exists(fs, <<"out", "sbom-vulnerabilities", ".json">>)
    /\ Exited /\ Failed

(***************************************************************************)
(* C14: when, after the SBOM command exited 0 and target/bom.xml was moved  *)
(* to sbom.xml, the removal of the target directory fails, the failure is   *)
(* only a warning: generateCycloneDX returns nil, the target directory      *)
(* stays, and the run goes on to the scan task.                             *)
(***************************************************************************)
CleanupFailed ==
    \E i \in 1..Len(log) :
        log[i] = Entry("warn", "", "Failed to clean up target directory")

C14_CleanupNotFatal ==
    CleanupFailed =>
        /\ Len(invoked) >= 3 /\ invoked[3].res.kind = "nil"
        /\ Exists(fs, <<"out", "sbom", ".xml">>)
        /\ Exists(fs, <<"out", "target", "">>)
        /\ (pc = "ret" /\ taskIdx = 3) => err = Nil
        /\ Len(returned) >= 3 => returned[3].err = Nil
        /\ (pc = "loop" /\ Len(returned) = 3) => (taskIdx = 4 /\ ENABLED StartTask)
        /\ (Exited /\ Failed) => Len(returned) = 4

C14_Witness ==
    /\ CleanupFailed
    /\ Len(started) = 4
    /\ pc = "scan_cmd"

(***************************************************************************)
(* C15 as stated: when the copy of the descriptor fails partway, the        *)
(* output directory holds no pom.xml with incomplete content.               *)
(***************************************************************************)
CopyFailedPartway ==
    /\ setup # << >>
    /\ Last(setup) = [step |-> "copy", err |-> "failed to copy file"]

C15_Original ==
    CopyFailedPartway => fs[<<"out", "pom", ".xml">>] # "partial"

(***************************************************************************)
(* C15 as amended: when the copy of the descriptor fails partway, the run   *)
(* ends with exit code 1 before any task starts and the incomplete copy     *)
(* stays in the output directory as pom.xml, its only entry; when copyFile  *)
(* fails before writing (directory, open, create) there is no pom.xml.      *)
(***************************************************************************)
C15_Amended ==
    /\ CopyFailedPartway =>
          /\ fs[<<"out", "pom", ".xml">>] = "partial"
          /\ Listing(fs) = { <<"out", "pom", ".xml">> }
          /\ Exited /\ Failed
          /\ started = << >> /\ invoked = << >>
    /\ (setup # << >> /\ Last(setup).step = "copy" /\ ~CopyFailedPartway) =>
          /\ Listing(fs) = {}
          /\ Exited /\ Failed

C15_Witness ==
    /\ CopyFailedPartway
    /\ fs[<<"out", "pom", ".xml">>] = "partial"
    /\ fs0[<<"data", "pom", ".xml">>] = "descriptor"
    /\ Exited /\ Failed

(***************************************************************************)
(* C16: staging changes no path outside the output directory; when it has   *)
(* succeeded and before the first task starts, every entry the directory    *)
(* held before the run is gone and the directory holds exactly one entry,   *)
(* pom.xml, the copy of the descriptor.                                     *)
(***************************************************************************)
InStaging == pc \in {"stat", "mkdir", "clean", "copy", "begin"} \/ setup # << >>

C16_StagingFrame ==
    /\ InStaging =>
          \A p \in DOMAIN fs0 : ~InOutputDir(p) => (p \in DOMAIN fs /\ fs[p] = fs0[p])
    /\ pc = "begin" =>
          /\ setup = << >> /\ started = << >>
          /\ Listing(fs) = { <<"out", "pom", ".xml">> }
          /\ fs[<<"out", "pom", ".xml">>] = fs0[pomFile]
          /\ \A p \in Listing(fs0) : fs[p] # fs0[p]

C16_Witness ==
    /\ pc = "begin"
    /\ Exists(fs0, <<"out", "target", "">>)
    /\ Exists(fs0, <<"out/target", "bom", ".xml">>)
    /\ Listing(fs) = { <<"out", "pom", ".xml">> }
    /\ fs[<<"data", "keep", ".txt">>] = "old"

(***************************************************************************)
(* C17: when the descriptor path does not exist, the run ends with exit     *)
(* code 1 at the first step, before it touches the filesystem: the output   *)
(* directory is neither created nor emptied, every file is as before the    *)
(* run, and no command is run.                                              *)
(***************************************************************************)
DescriptorMissing == ~Exists(fs0, pomFile)

C17_MissingDescriptorNoTouch ==
    /\ [](DescriptorMissing =>
            /\ fs = fs0
            /\ pc \in {"stat", "exited"}
            /\ invoked = << >> /\ started = << >>
            /\ Exited => /\ Failed
                         /\ setup = << [step |-> "stat", err |-> "not exist"] >>)
    /\ [][(pc = "stat" /\ ~Exists(fs, pomFile)) =>
             (dirExists' = dirExists /\ fs' = fs /\ pc' = "exited")]_vars

C17_Witness ==
    /\ DescriptorMissing
    /\ Exited /\ Failed
    /\ Cardinality(Listing(fs0)) >= 2
    /\ fs = fs0

(***************************************************************************)
(* C18: the output directory is emptied before the descriptor is copied.    *)
(* A descriptor inside the output directory (pom.xml itself included) is    *)
(* gone once the cleanup has returned, copyFile then fails, and the run     *)
(* ends with exit code 1 without starting a task; a descriptor that exists  *)
(* but cannot be opened is found only by copyFile, when the directory has   *)
(* already been emptied.                                                    *)
(***************************************************************************)
DescriptorInside == InOutputDir(pomFile) /\ Exists(fs0, pomFile)

C18_CleanBeforeCopy ==
    /\ DescriptorInside =>
          /\ started = << >> /\ invoked = << >>
          /\ pc \in {"stat", "mkdir", "clean", "copy", "exited"}
          /\ pc = "copy" => (~Exists(fs, pomFile) /\ Listing(fs) = {})
          /\ Exited =>
                /\ Failed
                /\ Last(setup).step \in {"clean", "copy"}
                /\ Last(setup).step = "copy" =>
                      /\ ~Exists(fs, pomFile)
                      /\ Last(setup).err \in
                            {"failed to open source file",
                             "failed to create destination directory"}
    /\ (unreadable /\ ~InOutputDir(pomFile)) =>
          /\ started = << >> /\ invoked = << >>
          /\ pc \in {"stat", "mkdir", "clean", "copy", "exited"}
          /\ Exited =>
                /\ Failed
                /\ Last(setup).step \in {"mkdir", "clean", "copy"}
                /\ Last(setup).step = "copy" => Listing(fs) = {}

C18_Witness ==
    /\ pomFile = <<"out", "pom", ".xml">>
    /\ fs0[pomFile] = "descriptor"
    /\ Cardinality(Listing(fs0)) >= 2
    /\ Exited /\ Failed
    /\ Last(setup) = [step |-> "copy", err |-> "failed to open source file"]
    /\ Listing(fs) = {}

(***************************************************************************)
(* C19: the report file is created before the scanner is started: whenever  *)
(* the scanner is about to run or has run, sbom-vulnerabilities.json        *)
(* exists in the output directory, empty until the scanner writes to it,    *)
(* also when the scanner could not be started or the scan task failed.      *)
(***************************************************************************)
C19_ReportCreatedFirst ==
    ScannerLaunched =>
        /\ Exists(fs, <<"out", "sbom-vulnerabilities", ".json">>)
        /\ pc = "scan_cmd" => fs[<<"out", "sbom-vulnerabilities", ".json">>] = "empty"
        /\ (ScannerRan /\ ~invoked[4].wrote) =>
              fs[<<"out", "sbom-vulnerabilities", ".json">>] = "empty"

C19_Witness ==
    /\ ScannerRan
    /\ invoked[4].res.kind = "Error"
    /\ Exited /\ Failed
    /\ fs[<<"out", "sbom-vulnerabilities", ".json">>] = "empty"

====
